---------------------------- MODULE Spec2Model ----------------------------
(***************************************************************************)
(* Model of the SIEMENS RCC Comparator (src/app.py, src/python.py).        *)
(*                                                                         *)
(* Part 1: the token matcher is_text_similar (normalisation followed by    *)
(*         difflib's SequenceMatcher ratio) as pure operators, exercised   *)
(*         by the specification SpecSim.                                   *)
(* Part 2: the comparison orchestrator compare_documents of src/app.py     *)
(*         together with the Compare / Cancel handlers of that script,     *)
(*         as the state machine Spec.                                      *)
(* Part 3: the per-page diff, the highlight rectangles and the time        *)
(*         estimate as specifications of their own (SpecDiff,              *)
(*         SpecHighlight, SpecEstimate).                                   *)
(* Part 4: the desktop front-end of src/python.py: the Compare and Cancel  *)
(*         buttons and the comparison threads, as SpecDesktop.             *)
(*                                                                         *)
(* Text is a sequence of one-character strings.  A threshold is an         *)
(* integer number of hundredths (the slider of src/app.py:68 moves in      *)
(* steps of 0.01), and ratio > threshold is decided exactly, as            *)
(* 200*M > threshold*T, where the code compares two binary floats.         *)
(***************************************************************************)
EXTENDS Integers, Sequences, FiniteSets, TLC

(***************************************************************************)
(* Bounds of the model.                                                    *)
(***************************************************************************)
\* longest raw token drawn as an input of is_text_similar
MaxLen == 3
\* most pages a rasterised document has
MaxPages == 2
\* most comparison runs started in one session
MaxRuns == 2
\* most tokens drawn for one page of the per-page diff
MaxTokens == 2
\* largest width and height, in pixels, of an image given to highlight_changes
MaxDim == 5
\* longest time, in seconds, between the start of a run and the end of a page
MaxElapsed == 60

(***************************************************************************)
(* Part 1.  normalize and is_text_similar                                  *)
(***************************************************************************)
LowerLetters ==
    {"a","b","c","d","e","f","g","h","i","j","k","l","m",
     "n","o","p","q","r","s","t","u","v","w","x","y","z"}

Digits == {"0","1","2","3","4","5","6","7","8","9"}

Whitespace == {" ", "\t", "\n", "\r"}

LowerOf ==
    ("A" :> "a") @@ ("B" :> "b") @@ ("C" :> "c") @@ ("D" :> "d") @@
    ("E" :> "e") @@ ("F" :> "f") @@ ("G" :> "g") @@ ("H" :> "h") @@
    ("I" :> "i") @@ ("J" :> "j") @@ ("K" :> "k") @@ ("L" :> "l") @@
    ("M" :> "m") @@ ("N" :> "n") @@ ("O" :> "o") @@ ("P" :> "p") @@
    ("Q" :> "q") @@ ("R" :> "r") @@ ("S" :> "s") @@ ("T" :> "t") @@
    ("U" :> "u") @@ ("V" :> "v") @@ ("W" :> "w") @@ ("X" :> "x") @@
    ("Y" :> "y") @@ ("Z" :> "z")

\* str.lower() on one character
Lower(c) == IF c \in DOMAIN LowerOf THEN LowerOf[c] ELSE c

\* text.strip(): leading and trailing whitespace removed
RECURSIVE StripLeft(_)
StripLeft(s) ==
    IF s # <<>> /\ Head(s) \in Whitespace THEN StripLeft(Tail(s)) ELSE s

RECURSIVE StripRight(_)
StripRight(s) ==
    IF s # <<>> /\ s[Len(s)] \in Whitespace
    THEN StripRight(SubSeq(s, 1, Len(s) - 1))
    ELSE s

Strip(s) == StripRight(StripLeft(s))

\* re.sub(r'[^a-z0-9]', '', text)
KeepAlnum(s) == SelectSeq(s, LAMBDA c : c \in LowerLetters \cup Digits)

\* .replace('0','o').replace('1','i').replace('5','s').replace('8','b')
Confusable(c) ==
    CASE c = "0" -> "o"
      [] c = "1" -> "i"
      [] c = "5" -> "s"
      [] c = "8" -> "b"
      [] OTHER   -> c

normalize(text) ==
    LET stripped == Strip(text)
        lowered  == [k \in 1..Len(stripped) |-> Lower(stripped[k])]
        cleaned  == KeepAlnum(lowered)
    IN  [k \in 1..Len(cleaned) |-> Confusable(cleaned[k])]

(***************************************************************************)
(* difflib.SequenceMatcher(None, a, b), with Python's 0-based half-open    *)
(* index ranges.  No junk predicate is given and the automatic junk        *)
(* heuristic needs len(b) >= 200, so every element of b is indexed.        *)
(***************************************************************************)
\* length of the common run of a[i:ahi] and b[j:bhi] that starts at (i, j)
RECURSIVE RunLen(_, _, _, _, _, _)
RunLen(a, b, i, j, ahi, bhi) ==
    IF i < ahi /\ j < bhi /\ a[i + 1] = b[j + 1]
    THEN 1 + RunLen(a, b, i + 1, j + 1, ahi, bhi)
    ELSE 0

SetMax(S) == CHOOSE x \in S : \A y \in S : y <= x
SetMin(S) == CHOOSE x \in S : \A y \in S : x <= y

\* find_longest_match: of all longest matching blocks the one that starts
\* earliest in a, and of those the one that starts earliest in b;
\* (alo, blo, 0) when nothing matches
find_longest_match(a, b, alo, ahi, blo, bhi) ==
    LET I == alo..(ahi - 1)
        J == blo..(bhi - 1)
        k == SetMax({0} \cup {RunLen(a, b, i, j, ahi, bhi) : i \in I, j \in J})
    IN  IF k = 0
        THEN [i |-> alo, j |-> blo, k |-> 0]
        ELSE LET bi == SetMin({i \in I :
                          \E j \in J : RunLen(a, b, i, j, ahi, bhi) = k})
                 bj == SetMin({j \in J : RunLen(a, b, bi, j, ahi, bhi) = k})
             IN  [i |-> bi, j |-> bj, k |-> k]

\* the longest block alone, nothing to its left or right
LongestBlockOnly(a, b, alo, ahi, blo, bhi) ==
    find_longest_match(a, b, alo, ahi, blo, bhi).k

\* get_matching_blocks, summed: the longest block, then the same to the
\* left and to the right of it
RECURSIVE MatchedSize(_, _, _, _, _, _)
MatchedSize(a, b, alo, ahi, blo, bhi) ==
    LET m == find_longest_match(a, b, alo, ahi, blo, bhi)
    IN  IF m.k = 0
        THEN 0
        ELSE m.k
             + (IF alo < m.i /\ blo < m.j
                THEN MatchedSize(a, b, alo, m.i, blo, m.j) ELSE 0)
             + (IF m.i + m.k < ahi /\ m.j + m.k < bhi
                THEN MatchedSize(a, b, m.i + m.k, ahi, m.j + m.k, bhi) ELSE 0)

\* ratio() = 2.0 * matches / (len(a) + len(b)), 1.0 when both are empty;
\* as the fraction num / den
ratio(a, b) ==
    LET matches == MatchedSize(a, b, 0, Len(a), 0, Len(b))
        length  == Len(a) + Len(b)
    IN  IF length = 0
        THEN [num |-> 1, den |-> 1]
        ELSE [num |-> 2 * matches, den |-> length]

\* the comparison turned round: ratio() < threshold
RatioBelow(a, b, threshold) ==
    LET r == ratio(a, b) IN 100 * r.num < threshold * r.den

\* the comparison made non-strict: ratio() >= threshold
RatioAtLeast(a, b, threshold) ==
    LET r == ratio(a, b) IN 100 * r.num >= threshold * r.den

\* ratio() > threshold, threshold in hundredths
RatioAbove(a, b, threshold) ==
    LET r == ratio(a, b) IN 100 * r.num > threshold * r.den

\* is_text_similar without the exact-match return
is_text_similar_no_shortcut(a, b, threshold) ==
    RatioAbove(normalize(a), normalize(b), threshold)

is_text_similar(a, b, threshold) ==
    LET norm_a == normalize(a)
        norm_b == normalize(b)
    IN  IF norm_a = norm_b
        THEN TRUE
        ELSE RatioAbove(norm_a, norm_b, threshold)


\* the comprehension with "not all" for "not any": a modified word is
\* flagged when some original word is not similar to it
changed_indices_any_dissimilar(orig_words, mod_words, threshold) ==
    LET flagged(idx) ==
            \E k \in 1..Len(orig_words) :
                ~is_text_similar(mod_words[idx + 1], orig_words[k], threshold)
        idxs == [k \in 1..Len(mod_words) |-> k - 1]
    IN  SelectSeq(idxs, flagged)

\* the comprehension comparing each modified word with the original word
\* at the same position only
changed_indices_positional(orig_words, mod_words, threshold) ==
    LET flagged(idx) ==
            \/ idx + 1 > Len(orig_words)
            \/ ~is_text_similar(mod_words[idx + 1], orig_words[idx + 1],
                                threshold)
        idxs == [k \in 1..Len(mod_words) |-> k - 1]
    IN  SelectSeq(idxs, flagged)

\* the list comprehension of compare_documents: the 0-based indices of the
\* modified words that are similar to no original word, ascending
changed_indices(orig_words, mod_words, threshold) ==
    LET flagged(idx) ==
            ~ \E k \in 1..Len(orig_words) :
                  is_text_similar(mod_words[idx + 1], orig_words[k], threshold)
        idxs == [k \in 1..Len(mod_words) |-> k - 1]
    IN  SelectSeq(idxs, flagged)

(***************************************************************************)
(* Part 2.  The Streamlit script src/app.py: the Compare and Cancel        *)
(* handlers and compare_documents.                                         *)
(***************************************************************************)
VARIABLES
    pc,               \* where compare_documents stands; "idle" between runs
    run,              \* number of runs started in this session
    outcome,          \* how the latest run ended; "none" before and during
    cancel,           \* cancel_flag["cancel"]
    sensitivity,      \* the slider's value, in hundredths
    original_pages,   \* len(original_pages)
    modified_pages,   \* len(modified_pages)
    i,                \* the loop index of enumerate(zip(...))
    result_images,    \* page numbers n of the paths page_<n>_diff.png
    progress,         \* progress_placeholder, after int(val)
    status,           \* status_placeholder
    time_text,        \* time_placeholder
    results_log,      \* the list the script's global results_log is bound to
    session_log,      \* the list st.session_state["results_log"] is bound to
    result_pdf_path,  \* st.session_state["result_pdf_path"] is set
    files,            \* the files in output_dir
    events,           \* history: <<progress, status>> emitted by this run
    compared,         \* history: page numbers OCR'd and diffed by this run
    writes,           \* history: page numbers of the imwrite calls of this run
    changed,          \* history: pages of this run with a non-empty change set
    cancel_seen,      \* history: page whose boundary check saw the flag, or 0
    report_written,   \* history: this run wrote comparison_report.pdf
    sim_pc,           \* SpecSim: "off", "input" or "done"
    sim_a,            \* SpecSim: first raw string
    sim_b,            \* SpecSim: second raw string
    sim_ab,           \* SpecSim: threshold -> is_text_similar(sim_a, sim_b, _)
    sim_ba,           \* SpecSim: threshold -> is_text_similar(sim_b, sim_a, _)
    d_pc,             \* SpecDiff: "off", "input" or "done"
    d_orig,           \* SpecDiff: the original page's tokens
    d_mod,            \* SpecDiff: the modified page's tokens
    d_changed,        \* SpecDiff: threshold -> changed_indices
    d_write,          \* SpecDiff: threshold -> the page's artifact is written
    h_pc,             \* SpecHighlight: "off", "input" or "done"
    h_image,          \* SpecHighlight: the image's width and height
    h_text_data,      \* SpecHighlight: the page's token boxes
    h_indices,        \* SpecHighlight: the change_indices argument
    h_rects,          \* SpecHighlight: the rectangles drawn
    e_pc,             \* SpecEstimate: "off", "input" or "done"
    e_elapsed,        \* SpecEstimate: time.time() - start_time, in seconds
    e_i,              \* SpecEstimate: the loop index of the page just done
    e_total,          \* SpecEstimate: total_pages
    e_text,           \* SpecEstimate: the text put in time_placeholder
    compare_button,   \* SpecDesktop: the Compare button is enabled
    cancel_button,    \* SpecDesktop: the Cancel button is enabled
    cancel_requested, \* SpecDesktop: self.cancel_requested
    progress_bar,     \* SpecDesktop: self.progress_bar["value"]
    status_message,   \* SpecDesktop: the text of self.status_message
    threads_started,  \* SpecDesktop: comparison threads started so far
    t_pc,             \* SpecDesktop: thread -> position in compare_documents
    t_i,              \* SpecDesktop: thread -> loop index i
    t_total,          \* SpecDesktop: thread -> total_pages
    t_images,         \* SpecDesktop: thread -> len(result_images)
    t_outcome,        \* SpecDesktop: thread -> "none", "success", ...
    t_pending,        \* history: thread -> a cancel request made for this
                      \*          run waits for its next boundary check
    t_lost,           \* history: thread -> a boundary check of this run
                      \*          passed while such a request was waiting
    t_end_idle,       \* history: thread -> the controls were idle when
                      \*          the thread ended
    input_error       \* history: start_comparison refused its inputs

runVars == <<pc, run, outcome, cancel, sensitivity, original_pages,
             modified_pages, i, result_images, progress, status, time_text,
             results_log, session_log, result_pdf_path, files, events,
             compared, writes, changed, cancel_seen, report_written>>

simVars == <<sim_pc, sim_a, sim_b, sim_ab, sim_ba>>

diffVars == <<d_pc, d_orig, d_mod, d_changed, d_write>>

highlightVars == <<h_pc, h_image, h_text_data, h_indices, h_rects>>

estimateVars == <<e_pc, e_elapsed, e_i, e_total, e_text>>

desktopVars == <<compare_button, cancel_button, cancel_requested,
                 progress_bar, status_message, threads_started, t_pc, t_i,
                 t_total, t_images, t_outcome, t_pending, t_lost, t_end_idle,
                 input_error>>

\* the state of the specifications of the pure functions and of the
\* desktop front-end
fnVars == <<simVars, diffVars, highlightVars, estimateVars, desktopVars>>

vars == <<runVars, fnVars>>

Last(s) == s[Len(s)]

Min(x, y) == IF x <= y THEN x ELSE y

\* the slider values the runs are started with
SensitivityValues == {75, 90}

\* what OCR can return for a page pair: the words of the original page and
\* of the modified page
OcrResults ==
    { [orig |-> << <<"V","a","l","v","e">>, <<"1","0","0">> >>,
       mod  |-> << <<"V","a","l","v","e">>, <<"I","O","O">> >>],
      [orig |-> << <<"V","a","l","v","e">> >>,
       mod  |-> << <<"V","a","l","u","e">> >>],
      [orig |-> << >>,
       mod  |-> << <<"P","S","I">>, <<"X","2","0","0">> >>],
      [orig |-> << <<"P","S","I">> >>,
       mod  |-> << >>] }

StatusMsg(text) == [text |-> text, page |-> 0, of |-> 0, detail |-> ""]
PageStatus(n, total) ==
    [text |-> "Comparing page", page |-> n, of |-> total, detail |-> ""]
ErrorStatus(cause) ==
    [text |-> "Error", page |-> 0, of |-> 0, detail |-> cause]

LogEntry(message, page, count, tag) ==
    [run |-> run, message |-> message, page |-> page, count |-> count,
     tag |-> tag]

DiffFile(n) == [name |-> "page_diff", page |-> n]
ReportFile  == [name |-> "comparison_report", page |-> 0]
UploadFiles == {[name |-> "original", page |-> 0],
                [name |-> "modified", page |-> 0]}

\* log_result: append to the list results_log is bound to, then bind the
\* session entry to that same list
log_result(entry) ==
    /\ results_log' = Append(results_log, entry)
    /\ session_log' = results_log'

\* progress_cb(val); status_cb(msg)
Emit(val, msg) ==
    /\ progress' = val
    /\ status' = msg
    /\ events' = Append(events, <<val, msg>>)

\* the except clause without progress_cb(0)
ExceptHandlerKeepsProgress(cause) ==
    /\ status' = ErrorStatus(cause)
    /\ events' = Append(events, <<progress, ErrorStatus(cause)>>)
    /\ UNCHANGED progress
    /\ log_result(LogEntry("Error during comparison", 0, 0, "error"))
    /\ outcome' = "error"
    /\ pc' = "idle"

\* the except clause of compare_documents
ExceptHandler(cause) ==
    /\ Emit(0, ErrorStatus(cause))
    /\ log_result(LogEntry("Error during comparison", 0, 0, "error"))
    /\ outcome' = "error"
    /\ pc' = "idle"

(***************************************************************************)
(* The state before the first click.                                       *)
(***************************************************************************)
RunInit ==
    /\ pc = "idle"
    /\ run = 0
    /\ outcome = "none"
    /\ cancel = FALSE
    /\ sensitivity = 75
    /\ original_pages = 0
    /\ modified_pages = 0
    /\ i = 0
    /\ result_images = <<>>
    /\ progress = 0
    /\ status = StatusMsg("")
    /\ time_text = ""
    /\ results_log = <<>>
    /\ session_log = <<>>
    /\ result_pdf_path = FALSE
    /\ files = {}
    /\ events = <<>>
    /\ compared = <<>>
    /\ writes = <<>>
    /\ changed = {}
    /\ cancel_seen = 0
    /\ report_written = FALSE

SimOff ==
    /\ sim_pc = "off"
    /\ sim_a = <<>>
    /\ sim_b = <<>>
    /\ sim_ab = <<>>
    /\ sim_ba = <<>>

DiffOff ==
    /\ d_pc = "off"
    /\ d_orig = <<>>
    /\ d_mod = <<>>
    /\ d_changed = <<>>
    /\ d_write = <<>>

HighlightOff ==
    /\ h_pc = "off"
    /\ h_image = <<>>
    /\ h_text_data = <<>>
    /\ h_indices = <<>>
    /\ h_rects = <<>>

EstimateOff ==
    /\ e_pc = "off"
    /\ e_elapsed = 0
    /\ e_i = 0
    /\ e_total = 0
    /\ e_text = <<>>

\* src/python.py is not running
DesktopOff ==
    /\ compare_button = FALSE
    /\ cancel_button = FALSE
    /\ cancel_requested = FALSE
    /\ progress_bar = 0
    /\ status_message = ""
    /\ threads_started = 0
    /\ t_pc = <<>>
    /\ t_i = <<>>
    /\ t_total = <<>>
    /\ t_images = <<>>
    /\ t_outcome = <<>>
    /\ t_pending = <<>>
    /\ t_lost = <<>>
    /\ t_end_idle = <<>>
    /\ input_error = FALSE

Init ==
    RunInit /\ SimOff /\ DiffOff /\ HighlightOff /\ EstimateOff /\ DesktopOff

(***************************************************************************)
(* "Compare Documents" is clicked: the script runs again from the top.     *)
(* Line 76 binds results_log to the session's list, the handler resets     *)
(* the flag, the placeholders and the session's log entry, and             *)
(* compare_documents starts (lines 125-126).                               *)
(***************************************************************************)
CompareClicked ==
    /\ pc = "idle"
    /\ run < MaxRuns
    /\ \E orig_file \in BOOLEAN, mod_file \in BOOLEAN, s \in SensitivityValues :
         IF ~orig_file \/ ~mod_file
         THEN \* st.error("Please select both documents to compare")
              UNCHANGED runVars
         ELSE /\ run' = run + 1
              /\ files' = files \cup UploadFiles
              /\ cancel' = FALSE
              /\ sensitivity' = s
              /\ time_text' = ""
              /\ results_log' = session_log
              /\ session_log' = <<>>
              /\ progress' = 5
              /\ status' = StatusMsg("Converting documents to images...")
              /\ events' = << <<5, StatusMsg("Converting documents to images...")>> >>
              /\ outcome' = "none"
              /\ compared' = <<>>
              /\ writes' = <<>>
              /\ changed' = {}
              /\ cancel_seen' = 0
              /\ report_written' = FALSE
              /\ pc' = "rasterize"
              /\ UNCHANGED <<original_pages, modified_pages, i, result_images,
                             result_pdf_path>>
    /\ UNCHANGED fnVars

(***************************************************************************)
(* "Cancel" is clicked (lines 241-243), at any moment: the flag is the      *)
(* dictionary the running compare_documents holds.                         *)
(***************************************************************************)
CancelClicked ==
    /\ cancel' = TRUE
    /\ status' = StatusMsg("Cancelling... Please wait")
    /\ UNCHANGED <<pc, run, outcome, sensitivity, original_pages,
                   modified_pages, i, result_images, progress, time_text,
                   results_log, session_log, result_pdf_path, files, events,
                   compared, writes, changed, cancel_seen, report_written>>
    /\ UNCHANGED fnVars

\* total_pages = min(len(original_pages), len(modified_pages))
total_pages(n_orig, n_mod) == Min(n_orig, n_mod)

\* the empty-document guard left out
NoPagesNever(total) == FALSE

\* if total_pages == 0: raise ValueError(...)
NoPages(total) == total = 0

(***************************************************************************)
(* Lines 127-142: both documents are rasterised; either call may raise.    *)
(***************************************************************************)
Rasterize ==
    /\ pc = "rasterize"
    /\ \/ /\ ExceptHandler("convert_from_path")
          /\ UNCHANGED <<original_pages, modified_pages, i, result_images>>
       \/ \E n_orig \in 0..MaxPages, n_mod \in 0..MaxPages :
            /\ original_pages' = n_orig
            /\ modified_pages' = n_mod
            /\ IF NoPages(total_pages(n_orig, n_mod))
               THEN /\ ExceptHandler("No pages found in one or both documents")
                    /\ UNCHANGED <<i, result_images>>
               ELSE /\ log_result(LogEntry("Processing page comparisons", 0,
                                   total_pages(n_orig, n_mod), "info"))
                    /\ result_images' = <<>>
                    /\ i' = 0
                    /\ pc' = "loop"
                    /\ UNCHANGED <<outcome, progress, status, events>>
    /\ UNCHANGED <<run, cancel, sensitivity, time_text, result_pdf_path, files,
                   compared, writes, changed, cancel_seen, report_written>>
    /\ UNCHANGED fnVars

\* the progress without the division by total_pages
PageProgressNoDivide(idx, total) == 10 + (idx * 80)

\* int(10 + (i * 80 / total_pages)), as progress_cb shows it
PageProgress(idx, total) == 10 + ((idx * 80) \div total)

\* a loop over the original document's pages alone
zip_len_original(n_orig, n_mod) == n_orig

\* zip(original_pages, modified_pages) stops with the shorter sequence
zip_len(n_orig, n_mod) == Min(n_orig, n_mod)

(***************************************************************************)
(* Lines 143-149: the head of the loop over zip(original_pages,            *)
(* modified_pages): the loop ends, or the flag is read and the loop is     *)
(* left, or the page is announced.  cancel_seen records the first page     *)
(* whose boundary check ran with the flag set.                             *)
(***************************************************************************)
LoopHeadNoBreak ==
    /\ pc = "loop"
    /\ IF i >= zip_len(original_pages, modified_pages)
       THEN /\ pc' = "after_loop"
            /\ UNCHANGED <<progress, status, events, cancel_seen>>
       ELSE /\ cancel_seen' = IF cancel /\ cancel_seen = 0
                              THEN i + 1 ELSE cancel_seen
            /\ Emit(PageProgress(i, total_pages(original_pages,
                                                modified_pages)),
                    PageStatus(i + 1, total_pages(original_pages,
                                                  modified_pages)))
            /\ pc' = "page"
    /\ UNCHANGED <<run, outcome, cancel, sensitivity, original_pages,
                   modified_pages, i, result_images, time_text, results_log,
                   session_log, result_pdf_path, files, compared, writes,
                   changed, report_written>>
    /\ UNCHANGED fnVars

LoopHead ==
    /\ pc = "loop"
    /\ IF i >= zip_len(original_pages, modified_pages)
       THEN /\ pc' = "after_loop"
            /\ UNCHANGED <<progress, status, events, results_log, session_log,
                           cancel_seen>>
       ELSE /\ cancel_seen' = IF cancel /\ cancel_seen = 0
                              THEN i + 1 ELSE cancel_seen
            /\ IF cancel
               THEN /\ log_result(LogEntry("Comparison cancelled by user", 0,
                                           0, "warning"))
                    /\ pc' = "after_loop"
                    /\ UNCHANGED <<progress, status, events>>
               ELSE /\ Emit(PageProgress(i, total_pages(original_pages,
                                                        modified_pages)),
                            PageStatus(i + 1, total_pages(original_pages,
                                                          modified_pages)))
                    /\ pc' = "page"
                    /\ UNCHANGED <<results_log, session_log>>
    /\ UNCHANGED <<run, outcome, cancel, sensitivity, original_pages,
                   modified_pages, i, result_images, time_text,
                   result_pdf_path, files, compared, writes, changed,
                   report_written>>
    /\ UNCHANGED fnVars

(***************************************************************************)
(* Lines 150-180: one page pair.  OCR of either page may raise; the words  *)
(* are diffed; a page with changes is highlighted and written (imwrite     *)
(* may raise), its path is appended and the count is logged; the time      *)
(* estimate is shown.                                                      *)
(***************************************************************************)
ProcessPage ==
    /\ pc = "page"
    /\ \/ /\ ExceptHandler("extract_text_data")
          /\ UNCHANGED <<i, result_images, time_text, files, compared, writes,
                         changed>>
       \/ \E ocr \in OcrResults :
            LET changed_idx == changed_indices(ocr.orig, ocr.mod, sensitivity)
                page == i + 1
            IN  /\ compared' = Append(compared, page)
                /\ IF changed_idx # <<>>
                   THEN /\ changed' = changed \cup {page}
                        /\ \/ /\ ExceptHandler("imwrite")
                              /\ UNCHANGED <<i, result_images, time_text, files,
                                             writes>>
                           \/ /\ files' = files \cup {DiffFile(page)}
                              /\ writes' = Append(writes, page)
                              /\ result_images' = Append(result_images, page)
                              /\ log_result(LogEntry("Found differences", page,
                                                     Len(changed_idx), "success"))
                              /\ time_text' = "Estimated time remaining"
                              /\ i' = i + 1
                              /\ pc' = "loop"
                              /\ UNCHANGED <<outcome, progress, status, events>>
                   ELSE /\ log_result(LogEntry("No differences found", page, 0,
                                               "info"))
                        /\ time_text' = "Estimated time remaining"
                        /\ i' = i + 1
                        /\ pc' = "loop"
                        /\ UNCHANGED <<outcome, progress, status, events,
                                       result_images, files, writes, changed>>
    /\ UNCHANGED <<run, cancel, sensitivity, original_pages, modified_pages,
                   result_pdf_path, cancel_seen, report_written>>
    /\ UNCHANGED fnVars

(***************************************************************************)
(* Lines 181-183: the flag is read a second time, after the loop.          *)
(***************************************************************************)
AfterLoop ==
    /\ pc = "after_loop"
    /\ IF result_images # <<>> /\ ~cancel
       THEN /\ Emit(95, StatusMsg("Generating final report..."))
            /\ pc' = "report"
       ELSE /\ pc' = "final"
            /\ UNCHANGED <<progress, status, events>>
    /\ UNCHANGED <<run, outcome, cancel, sensitivity, original_pages,
                   modified_pages, i, result_images, time_text, results_log,
                   session_log, result_pdf_path, files, compared, writes,
                   changed, cancel_seen, report_written>>
    /\ UNCHANGED fnVars

(***************************************************************************)
(* Lines 184-187: create_pdf_report, which may raise.                      *)
(***************************************************************************)
Report ==
    /\ pc = "report"
    /\ \/ /\ ExceptHandler("create_pdf_report")
          /\ UNCHANGED <<result_pdf_path, files, report_written>>
       \/ /\ files' = files \cup {ReportFile}
          /\ report_written' = TRUE
          /\ log_result(LogEntry("Final report generated", 0, 0, "success"))
          /\ result_pdf_path' = TRUE
          /\ pc' = "final"
          /\ UNCHANGED <<outcome, progress, status, events>>
    /\ UNCHANGED <<run, cancel, sensitivity, original_pages, modified_pages, i,
                   result_images, time_text, compared, writes, changed,
                   cancel_seen>>
    /\ UNCHANGED fnVars

(***************************************************************************)
(* Lines 188-194: the flag is read a third time.                           *)
(***************************************************************************)
Final ==
    /\ pc = "final"
    /\ IF ~cancel
       THEN /\ Emit(100, StatusMsg("Comparison complete!"))
            /\ log_result(LogEntry("Document comparison finished successfully",
                                   0, 0, "success"))
            /\ outcome' = "success"
       ELSE /\ Emit(0, StatusMsg("Comparison cancelled"))
            /\ outcome' = "cancelled"
            /\ UNCHANGED <<results_log, session_log>>
    /\ pc' = "idle"
    /\ UNCHANGED <<run, cancel, sensitivity, original_pages, modified_pages, i,
                   result_images, time_text, result_pdf_path, files, compared,
                   writes, changed, cancel_seen, report_written>>
    /\ UNCHANGED fnVars

\* the first click of a session
FirstCompareClicked == run = 0 /\ CompareClicked

(***************************************************************************)
(* Spec: a session in which one comparison is run.                         *)
(* SpecSession: a session of up to MaxRuns comparisons, one after the      *)
(* other, into the same output_dir.                                        *)
(***************************************************************************)
Next ==
    \/ FirstCompareClicked
    \/ CancelClicked
    \/ Rasterize
    \/ LoopHead
    \/ ProcessPage
    \/ AfterLoop
    \/ Report
    \/ Final

Spec == Init /\ [][Next]_vars

NextSession ==
    \/ CompareClicked
    \/ CancelClicked
    \/ Rasterize
    \/ LoopHead
    \/ ProcessPage
    \/ AfterLoop
    \/ Report
    \/ Final

SpecSession == Init /\ [][NextSession]_vars

(***************************************************************************)
(* SpecSim: is_text_similar applied to every pair of raw strings of at     *)
(* most MaxLen characters, in both orders and for every threshold of       *)
(* Thresholds.                                                             *)
(***************************************************************************)
\* a lower-case letter, an upper-case letter, a confusable digit and a
\* character that normalize removes
SimAlphabet == {"a", "B", "0", " "}

RawStrings == UNION {[1..n -> SimAlphabet] : n \in 0..MaxLen}

\* slider positions, in hundredths, both ends of [0.5, 1.0] included
Thresholds == {50, 60, 75, 90, 100}

SimInit ==
    /\ RunInit
    /\ DiffOff
    /\ HighlightOff
    /\ EstimateOff
    /\ DesktopOff
    /\ sim_pc = "input"
    /\ sim_a \in RawStrings
    /\ sim_b \in RawStrings
    /\ sim_ab = [t \in Thresholds |-> FALSE]
    /\ sim_ba = [t \in Thresholds |-> FALSE]

SimEvaluate ==
    /\ sim_pc = "input"
    /\ sim_pc' = "done"
    /\ sim_ab' = [t \in Thresholds |-> is_text_similar(sim_a, sim_b, t)]
    /\ sim_ba' = [t \in Thresholds |-> is_text_similar(sim_b, sim_a, t)]
    /\ UNCHANGED <<sim_a, sim_b>>
    /\ UNCHANGED <<runVars, diffVars, highlightVars, estimateVars, desktopVars>>

SimNext == SimEvaluate

SpecSim == SimInit /\ [][SimNext]_vars

(***************************************************************************)
(* The per-page diff, lines 150-159: the tokens of one page pair, the      *)
(* change set at every threshold, and the test that decides whether the    *)
(* page's artifact is written.                                             *)
(***************************************************************************)
DiffWords == { <<"X","1","0","0">>, <<"X","2","0","0">>, <<"P","S","I">> }

TokenLists == UNION {[1..n -> DiffWords] : n \in 0..MaxTokens}

\* a digit read as letters
ScenarioA ==
    [orig |-> << <<"V","a","l","v","e">>, <<"1","0","0">>, <<"P","S","I">> >>,
     mod  |-> << <<"V","a","l","v","e">>, <<"I","O","O">>, <<"P","S","I">> >>]

\* two misspelt words
ScenarioB ==
    [orig |-> << <<"P","r","e","s","s","u","r","e">>,
                 <<"G","a","u","g","e">> >>,
     mod  |-> << <<"P","r","e","a","s","u","r","e">>,
                 <<"G","a","g","u","e">> >>]

\* a changed model number
ScenarioC ==
    [orig |-> << <<"M","o","d","e","l">>, <<"X","1","0","0">> >>,
     mod  |-> << <<"M","o","d","e","l">>, <<"X","2","0","0">> >>]

ScenarioLists ==
    UNION {{sc.orig, sc.mod} : sc \in {ScenarioA, ScenarioB, ScenarioC}}

DiffLists == TokenLists \cup ScenarioLists

DiffInit ==
    /\ RunInit
    /\ SimOff
    /\ HighlightOff
    /\ EstimateOff
    /\ DesktopOff
    /\ d_pc = "input"
    /\ d_orig \in DiffLists
    /\ d_mod \in DiffLists
    /\ d_changed = [t \in Thresholds |-> <<>>]
    /\ d_write = [t \in Thresholds |-> FALSE]

DiffPage ==
    /\ d_pc = "input"
    /\ d_pc' = "done"
    /\ d_changed' = [t \in Thresholds |-> changed_indices(d_orig, d_mod, t)]
    /\ d_write' = [t \in Thresholds |->
                       changed_indices(d_orig, d_mod, t) # <<>>]
    /\ UNCHANGED <<d_orig, d_mod>>
    /\ UNCHANGED <<runVars, simVars, highlightVars, estimateVars, desktopVars>>

DiffNext == DiffPage

SpecDiff == DiffInit /\ [][DiffNext]_vars

(***************************************************************************)
(* highlight_changes, lines 100-112.  A token box is the row of the OCR    *)
(* table: left, top, width, height.  The rectangles are kept as the        *)
(* corner coordinates handed to cv2.rectangle.                             *)
(***************************************************************************)
padding == 4

Max(x, y) == IF x >= y THEN x ELSE y

\* the corners without the max(..., 0) of the top-left corner
rectangle_unclamped(row) ==
    [x1 |-> row.left - padding,
     y1 |-> row.top - padding,
     x2 |-> row.left + row.width + padding,
     y2 |-> row.top + row.height + padding]

\* lines 106-110
rectangle(row) ==
    [x1 |-> Max(row.left - padding, 0),
     y1 |-> Max(row.top - padding, 0),
     x2 |-> row.left + row.width + padding,
     y2 |-> row.top + row.height + padding]

\* the rectangles drawn, in the order of change_indices; an index that is
\* not a row of text_data draws nothing
highlight_changes(text_data, change_indices) ==
    LET rows == SelectSeq(change_indices, LAMBDA idx : idx < Len(text_data))
    IN  [k \in 1..Len(rows) |-> rectangle(text_data[rows[k] + 1])]

Images == [width : 1..MaxDim, height : 1..MaxDim]

\* the token boxes that lie inside the image
BoxesIn(image) ==
    {row \in [left : 0..image.width, top : 0..image.height,
              width : 0..image.width, height : 0..image.height] :
        /\ row.left + row.width <= image.width
        /\ row.top + row.height <= image.height}

HighlightInit ==
    /\ RunInit
    /\ SimOff
    /\ DiffOff
    /\ EstimateOff
    /\ DesktopOff
    /\ h_pc = "input"
    /\ h_image \in Images
    /\ \E row \in BoxesIn(h_image) : h_text_data = <<row>>
    /\ h_indices \in {<<0>>, <<1>>, <<0, 1>>}
    /\ h_rects = <<>>

Highlight ==
    /\ h_pc = "input"
    /\ h_pc' = "done"
    /\ h_rects' = highlight_changes(h_text_data, h_indices)
    /\ UNCHANGED <<h_image, h_text_data, h_indices>>
    /\ UNCHANGED <<runVars, simVars, diffVars, estimateVars, desktopVars>>

HighlightNext == Highlight

SpecHighlight == HighlightInit /\ [][HighlightNext]_vars

(***************************************************************************)
(* The time estimate, lines 170-180.  elapsed is a whole number of         *)
(* seconds (negative when the wall clock of time.time() was set back       *)
(* during the run); progress and remaining are fractions num / den with    *)
(* den > 0, where the code has binary floats.                              *)
(***************************************************************************)
\* line 147: progress = 10 + (i * 80 / total_pages)
progress_of(idx, total) == [num |-> 10 * total + idx * 80, den |-> total]

\* lines 172-173: max(0, elapsed / (progress / 100) - elapsed)
remaining_of(elapsed, prog) ==
    LET num == elapsed * (100 * prog.den - prog.num)
    IN  [num |-> Max(0, num), den |-> prog.num]

\* lines 174-179: the two forms of the text
time_str(remaining) ==
    IF remaining.num > 60 * remaining.den
    THEN [form |-> "m_s",
          mins |-> remaining.num \div (60 * remaining.den),
          secs |-> (remaining.num \div remaining.den) % 60]
    ELSE [form |-> "s",
          mins |-> 0,
          secs |-> remaining.num \div remaining.den]

NoEstimate == [form |-> "none", mins |-> 0, secs |-> 0]

EstimateInit ==
    /\ RunInit
    /\ SimOff
    /\ DiffOff
    /\ HighlightOff
    /\ DesktopOff
    /\ e_pc = "input"
    /\ e_elapsed \in (0 - MaxElapsed)..MaxElapsed
    /\ e_total \in 1..MaxPages
    /\ e_i \in 0..(e_total - 1)
    /\ e_text = NoEstimate

Estimate ==
    /\ e_pc = "input"
    /\ e_pc' = "done"
    /\ LET prog == progress_of(e_i, e_total)
       IN  IF prog.num > 5 * prog.den
           THEN e_text' = time_str(remaining_of(e_elapsed, prog))
           ELSE e_text' = e_text
    /\ UNCHANGED <<e_elapsed, e_i, e_total>>
    /\ UNCHANGED <<runVars, simVars, diffVars, highlightVars, desktopVars>>

EstimateNext == Estimate

SpecEstimate == EstimateInit /\ [][EstimateNext]_vars

(***************************************************************************)
(* Part 4.  The desktop front-end, src/python.py.  The Tk main loop runs   *)
(* start_comparison and cancel_operation; every comparison runs            *)
(* compare_documents on a thread of its own, which ends with the finally   *)
(* block of lines 533-536.  The two statements of that block are two       *)
(* steps: the buttons are clickable as soon as the first has run.          *)
(***************************************************************************)
Threads == 1..MaxRuns

\* the thread has been started and has not returned from compare_documents
Alive(w) == t_pc[w] \notin {"unstarted", "ended"}

\* a boundary check with a page behind it is still ahead of the thread
HasUnprocessedPages(w) ==
    \/ t_pc[w] = "loop" /\ t_i[w] < t_total[w]
    \/ t_pc[w] = "page" /\ t_i[w] + 1 < t_total[w]

\* lines 19-26 and 290-312: Compare enabled, Cancel disabled, flag False
DesktopInit ==
    /\ RunInit
    /\ SimOff
    /\ DiffOff
    /\ HighlightOff
    /\ EstimateOff
    /\ compare_button = TRUE
    /\ cancel_button = FALSE
    /\ cancel_requested = FALSE
    /\ progress_bar = 0
    /\ status_message = "Ready"
    /\ threads_started = 0
    /\ t_pc = [w \in Threads |-> "unstarted"]
    /\ t_i = [w \in Threads |-> 0]
    /\ t_total = [w \in Threads |-> 0]
    /\ t_images = [w \in Threads |-> 0]
    /\ t_outcome = [w \in Threads |-> "none"]
    /\ t_pending = [w \in Threads |-> FALSE]
    /\ t_lost = [w \in Threads |-> FALSE]
    /\ t_end_idle = [w \in Threads |-> FALSE]
    /\ input_error = FALSE

\* lines 616-624
toggle_ui_state(enabled) ==
    /\ compare_button' = enabled
    /\ cancel_button' = ~enabled

\* lines 626-629
update_progress(value, message) ==
    /\ progress_bar' = value
    /\ status_message' = message

\* lines 403-445: the Compare button's command; the inputs are refused
\* (lines 410-416) or a thread is started
start_comparison ==
    /\ compare_button
    /\ \/ /\ input_error' = TRUE
          /\ UNCHANGED <<compare_button, cancel_button, cancel_requested,
                         progress_bar, status_message, threads_started, t_pc,
                         t_i, t_total, t_images, t_outcome, t_pending, t_lost,
                         t_end_idle>>
       \/ /\ threads_started < MaxRuns
          /\ toggle_ui_state(FALSE)
          /\ update_progress(0, "Preparing to compare documents...")
          /\ threads_started' = threads_started + 1
          /\ t_pc' = [t_pc EXCEPT ![threads_started + 1] = "rasterize"]
          /\ UNCHANGED <<cancel_requested, t_i, t_total, t_images, t_outcome,
                         t_pending, t_lost, t_end_idle, input_error>>
    /\ UNCHANGED <<runVars, simVars, diffVars, highlightVars, estimateVars>>

\* lines 586-590: the Cancel button's command.  The request is made for
\* the run started last.
cancel_operation ==
    /\ cancel_button
    /\ cancel_requested' = TRUE
    /\ cancel_button' = FALSE
    /\ status_message' = "Cancelling... Please wait"
    /\ t_pending' = [w \in Threads |->
                        IF w = threads_started /\ HasUnprocessedPages(w)
                        THEN TRUE ELSE t_pending[w]]
    /\ UNCHANGED <<compare_button, progress_bar, threads_started, t_pc, t_i,
                   t_total, t_images, t_outcome, t_lost, t_end_idle,
                   input_error>>
    /\ UNCHANGED <<runVars, simVars, diffVars, highlightVars, estimateVars>>

\* lines 449-468: progress 5, both documents rasterised, the guard
\* against an empty document
ThreadRasterize(w) ==
    /\ t_pc[w] = "rasterize"
    /\ \/ /\ update_progress(5, "Converting documents to images...")
          /\ t_pc' = [t_pc EXCEPT ![w] = "except"]
          /\ UNCHANGED t_total
       \/ \E n_orig \in 0..MaxPages, n_mod \in 0..MaxPages :
            /\ update_progress(5, "Converting documents to images...")
            /\ t_total' = [t_total EXCEPT ![w] = Min(n_orig, n_mod)]
            /\ t_pc' = [t_pc EXCEPT ![w] = IF Min(n_orig, n_mod) = 0
                                           THEN "except" ELSE "loop"]
    /\ UNCHANGED <<compare_button, cancel_button, cancel_requested,
                   threads_started, t_i, t_images, t_outcome, t_pending,
                   t_lost, t_end_idle, input_error>>
    /\ UNCHANGED <<runVars, simVars, diffVars, highlightVars, estimateVars>>

\* lines 474-483: the head of the loop with the boundary check
ThreadLoopHead(w) ==
    /\ t_pc[w] = "loop"
    /\ IF t_i[w] >= t_total[w]
       THEN /\ t_pc' = [t_pc EXCEPT ![w] = "after_loop"]
            /\ UNCHANGED <<progress_bar, status_message, t_pending, t_lost>>
       ELSE /\ t_pending' = [t_pending EXCEPT ![w] = FALSE]
            /\ t_lost' = [t_lost EXCEPT
                             ![w] = @ \/ (t_pending[w] /\ ~cancel_requested)]
            /\ IF cancel_requested
               THEN /\ t_pc' = [t_pc EXCEPT ![w] = "after_loop"]
                    /\ UNCHANGED <<progress_bar, status_message>>
               ELSE /\ update_progress(PageProgress(t_i[w], t_total[w]),
                                       "Comparing page")
                    /\ t_pc' = [t_pc EXCEPT ![w] = "page"]
    /\ UNCHANGED <<compare_button, cancel_button, cancel_requested,
                   threads_started, t_i, t_total, t_images, t_outcome,
                   t_end_idle, input_error>>
    /\ UNCHANGED <<runVars, simVars, diffVars, highlightVars, estimateVars>>

\* lines 485-511: OCR, diff, and the page's artifact when it has changes
ThreadProcessPage(w) ==
    /\ t_pc[w] = "page"
    /\ \/ /\ t_pc' = [t_pc EXCEPT ![w] = "except"]
          /\ t_pending' = [t_pending EXCEPT ![w] = FALSE]
          /\ UNCHANGED <<t_i, t_images>>
       \/ \E has_changes \in BOOLEAN :
            /\ t_images' = [t_images EXCEPT
                               ![w] = IF has_changes THEN @ + 1 ELSE @]
            /\ t_i' = [t_i EXCEPT ![w] = @ + 1]
            /\ t_pc' = [t_pc EXCEPT ![w] = "loop"]
            /\ UNCHANGED t_pending
    /\ UNCHANGED <<compare_button, cancel_button, cancel_requested,
                   progress_bar, status_message, threads_started, t_total,
                   t_outcome, t_lost, t_end_idle, input_error>>
    /\ UNCHANGED <<runVars, simVars, diffVars, highlightVars, estimateVars>>

\* lines 513-515: the flag is read a second time
ThreadAfterLoop(w) ==
    /\ t_pc[w] = "after_loop"
    /\ IF t_images[w] > 0 /\ ~cancel_requested
       THEN /\ update_progress(95, "Generating final report...")
            /\ t_pc' = [t_pc EXCEPT ![w] = "report"]
       ELSE /\ t_pc' = [t_pc EXCEPT ![w] = "final"]
            /\ UNCHANGED <<progress_bar, status_message>>
    /\ UNCHANGED <<compare_button, cancel_button, cancel_requested,
                   threads_started, t_i, t_total, t_images, t_outcome,
                   t_pending, t_lost, t_end_idle, input_error>>
    /\ UNCHANGED <<runVars, simVars, diffVars, highlightVars, estimateVars>>

\* lines 516-519
ThreadReport(w) ==
    /\ t_pc[w] = "report"
    /\ \/ t_pc' = [t_pc EXCEPT ![w] = "except"]
       \/ t_pc' = [t_pc EXCEPT ![w] = "final"]
    /\ UNCHANGED <<compare_button, cancel_button, cancel_requested,
                   progress_bar, status_message, threads_started, t_i,
                   t_total, t_images, t_outcome, t_pending, t_lost,
                   t_end_idle, input_error>>
    /\ UNCHANGED <<runVars, simVars, diffVars, highlightVars, estimateVars>>

\* lines 521-526: the flag is read a third time
ThreadFinal(w) ==
    /\ t_pc[w] = "final"
    /\ IF ~cancel_requested
       THEN /\ update_progress(100, "Comparison complete!")
            /\ t_outcome' = [t_outcome EXCEPT ![w] = "success"]
       ELSE /\ update_progress(0, "Comparison cancelled")
            /\ t_outcome' = [t_outcome EXCEPT ![w] = "cancelled"]
    /\ t_pc' = [t_pc EXCEPT ![w] = "finally"]
    /\ UNCHANGED <<compare_button, cancel_button, cancel_requested,
                   threads_started, t_i, t_total, t_images, t_pending, t_lost,
                   t_end_idle, input_error>>
    /\ UNCHANGED <<runVars, simVars, diffVars, highlightVars, estimateVars>>

\* lines 528-531: the except clause; the message box has been closed
ThreadExcept(w) ==
    /\ t_pc[w] = "except"
    /\ update_progress(0, "Error")
    /\ t_outcome' = [t_outcome EXCEPT ![w] = "error"]
    /\ t_pc' = [t_pc EXCEPT ![w] = "finally"]
    /\ UNCHANGED <<compare_button, cancel_button, cancel_requested,
                   threads_started, t_i, t_total, t_images, t_pending, t_lost,
                   t_end_idle, input_error>>
    /\ UNCHANGED <<runVars, simVars, diffVars, highlightVars, estimateVars>>

\* line 535: the first statement of the finally block
ThreadFinallyToggle(w) ==
    /\ t_pc[w] = "finally"
    /\ toggle_ui_state(TRUE)
    /\ t_pc' = [t_pc EXCEPT ![w] = "reset"]
    /\ UNCHANGED <<cancel_requested, progress_bar, status_message,
                   threads_started, t_i, t_total, t_images, t_outcome,
                   t_pending, t_lost, t_end_idle, input_error>>
    /\ UNCHANGED <<runVars, simVars, diffVars, highlightVars, estimateVars>>

\* line 536: the second statement of the finally block; the thread ends
ThreadFinallyReset(w) ==
    /\ t_pc[w] = "reset"
    /\ cancel_requested' = FALSE
    /\ t_end_idle' = [t_end_idle EXCEPT
                         ![w] = compare_button /\ ~cancel_button]
    /\ t_pc' = [t_pc EXCEPT ![w] = "ended"]
    /\ UNCHANGED <<compare_button, cancel_button, progress_bar,
                   status_message, threads_started, t_i, t_total, t_images,
                   t_outcome, t_pending, t_lost, input_error>>
    /\ UNCHANGED <<runVars, simVars, diffVars, highlightVars, estimateVars>>

ThreadStep(w) ==
    \/ ThreadRasterize(w)
    \/ ThreadLoopHead(w)
    \/ ThreadProcessPage(w)
    \/ ThreadAfterLoop(w)
    \/ ThreadReport(w)
    \/ ThreadFinal(w)
    \/ ThreadExcept(w)
    \/ ThreadFinallyToggle(w)
    \/ ThreadFinallyReset(w)

DesktopNext ==
    \/ start_comparison
    \/ cancel_operation
    \/ \E w \in Threads : ThreadStep(w)

SpecDesktop == DesktopInit /\ [][DesktopNext]_vars

(***************************************************************************)
(* Properties.                                                             *)
(***************************************************************************)
RunEnded == pc = "idle" /\ outcome # "none"

ProgressSeen(val) == \E k \in 1..Len(events) : events[k][1] = val

StatusSeen(text) == \E k \in 1..Len(events) : events[k][2].text = text

\* the run's last emission is progress 0 with "Comparison cancelled"
EndedCancelled ==
    /\ pc = "idle"
    /\ events # <<>>
    /\ Last(events) = <<0, StatusMsg("Comparison cancelled")>>

\* the error entries the current run appended to the log
ErrorEntries ==
    {k \in 1..Len(results_log) :
        results_log[k].run = run /\ results_log[k].tag = "error"}

ErrorCauses ==
    {"convert_from_path", "extract_text_data", "imwrite", "create_pdf_report"}

\* C1: if the flag is set when the check before page k runs, page k and
\* every later page is not processed, only pages before k have artifacts
\* written by this run, no report is generated, and the run ends in
\* Cancelled with progress 0 and status "Comparison cancelled".
C1_CancelAtBoundaryStopsRun ==
    cancel_seen # 0 =>
        /\ \A k \in 1..Len(compared) : compared[k] < cancel_seen
        /\ \A k \in 1..Len(writes) : writes[k] < cancel_seen
        /\ \A k \in 1..Len(result_images) : result_images[k] < cancel_seen
        /\ ~report_written
        /\ ~ProgressSeen(95)
        /\ pc \in {"after_loop", "final", "idle"}
        /\ pc = "idle" =>
             /\ outcome = "cancelled"
             /\ EndedCancelled
             /\ progress = 0

\* C1 witness: the flag is set after page 1 of a two-page document, page 1
\* had changes, and the run has ended
C1_Witness ==
    /\ pc = "idle"
    /\ cancel_seen = 2
    /\ compared = <<1>>
    /\ writes = <<1>>
    /\ outcome = "cancelled"

\* C2: a run that ends in Cancelled never emitted progress 95 /
\* "Generating final report..." and never wrote comparison_report.pdf.
C2_CancelledSkipsReport ==
    EndedCancelled =>
        /\ ~ProgressSeen(95)
        /\ ~StatusSeen("Generating final report...")
        /\ ~report_written

\* C3: an exception raised in any phase is absorbed: the run ends with
\* progress 0, the error message as status, exactly one error entry
\* appended to the log (its last entry), and control back at the caller.
C3_ExceptionAbsorbed ==
    outcome = "error" =>
        /\ pc = "idle"
        /\ progress = 0
        /\ Last(events)[1] = 0
        /\ Last(events)[2].text = "Error"
        /\ Cardinality(ErrorEntries) = 1
        /\ Last(results_log).tag = "error"
        /\ Last(results_log).run = run

\* C3 witness: report assembly raised, after progress 95 was emitted
C3_Witness ==
    /\ outcome = "error"
    /\ pc = "idle"
    /\ ProgressSeen(95)
    /\ Last(events) = <<0, ErrorStatus("create_pdf_report")>>

\* C4: if min(len(original_pages), len(modified_pages)) is 0 after
\* rasterizing, the run ends in error with progress 0, compares no page,
\* writes no diff image and no report, and never emits progress 100 or
\* "Comparison complete!".
C4_EmptyDocumentIsError ==
    (run >= 1 /\ pc # "rasterize"
       /\ total_pages(original_pages, modified_pages) = 0) =>
        /\ pc = "idle"
        /\ outcome = "error"
        /\ progress = 0
        /\ compared = <<>>
        /\ writes = <<>>
        /\ ~report_written
        /\ ~ProgressSeen(100)
        /\ ~StatusSeen("Comparison complete!")

\* C4 witness: the original has no page, the modified document has some
C4_Witness ==
    /\ pc = "idle"
    /\ original_pages = 0
    /\ modified_pages > 0
    /\ Last(events) =
         <<0, ErrorStatus("No pages found in one or both documents")>>

\* C5: a run ends in success only after the page pairs 1..total_pages have
\* each been compared once, in ascending order; no page beyond total_pages
\* is ever compared; an error comes from a raising call or from an empty
\* document, never from a length mismatch alone.
C5_SuccessComparesEveryPair ==
    LET total == Min(original_pages, modified_pages)
    IN  /\ \A k \in 1..Len(compared) : compared[k] = k /\ k <= total
        /\ outcome = "success" =>
             /\ compared = [k \in 1..total |-> k]
             /\ Last(events) = <<100, StatusMsg("Comparison complete!")>>
             /\ Last(results_log).message =
                  "Document comparison finished successfully"
        /\ outcome = "error" =>
             \/ Last(events)[2].detail \in ErrorCauses
             \/ total = 0

\* C5 witness: documents of different lengths, compared with success
C5_Witness ==
    /\ outcome = "success"
    /\ original_pages # modified_pages
    /\ compared = <<1>>

\* C6: after a run has ended, comparison_report.pdf is present only if a
\* page of that run had a non-empty change set (the direction of the claim
\* that a run without changes leaves no report, also after an earlier run
\* that produced one).
C6_ReportPresentOnlyIfChanged ==
    (RunEnded /\ ReportFile \in files) => changed # {}

\* C7: after a run in which no page has changes, no page_<n>_diff.png
\* exists in output_dir.
C7_NoDiffFileAfterRunWithoutChanges ==
    (RunEnded /\ changed = {}) =>
        ~ \E f \in files : f.name = "page_diff"

\* C8: the log is reset at the start of the next run: it holds no entry
\* appended during an earlier run.
C8_LogHoldsOnlyCurrentRun ==
    \A k \in 1..Len(session_log) : session_log[k].run = run

\* C9: is_text_similar(a, b, t) = is_text_similar(b, a, t) for all strings
\* a, b and every threshold t.
C9_Symmetric ==
    sim_pc = "done" => \A t \in Thresholds : sim_ab[t] = sim_ba[t]

\* C10: two strings whose normalized forms are identical (in particular a
\* string and itself) are similar for every threshold, 1.0 included.
C10_SameNormalFormSimilar ==
    (sim_pc = "done" /\ normalize(sim_a) = normalize(sim_b)) =>
        \A t \in Thresholds : sim_ab[t] /\ sim_ba[t]

\* C10 witness: two different raw strings with the same non-empty normal
\* form, found similar at threshold 1.0
C10_Witness ==
    /\ sim_pc = "done"
    /\ sim_a # sim_b
    /\ normalize(sim_a) = normalize(sim_b)
    /\ normalize(sim_a) # <<>>
    /\ sim_ab[100]

\* C11: if is_text_similar(a, b, t1) holds and t2 < t1, then
\* is_text_similar(a, b, t2) holds.
C11_ThresholdMonotone ==
    sim_pc = "done" =>
        \A t1 \in Thresholds, t2 \in Thresholds :
            (t2 < t1 /\ sim_ab[t1]) => sim_ab[t2]

\* C11 witness: two strings with different normal forms that are similar
\* at 0.50 and 0.75 and not at 0.90
C11_Witness ==
    /\ sim_pc = "done"
    /\ normalize(sim_a) # normalize(sim_b)
    /\ sim_ab[50]
    /\ sim_ab[75]
    /\ ~sim_ab[90]

Range(s) == {s[k] : k \in 1..Len(s)}

\* the 0-based indices of a token list
Indices(words) == 0..(Len(words) - 1)

\* C12: modified index idx is in the change set iff no original token is
\* similar to modified token idx; with no original tokens every modified
\* index is flagged; with no modified tokens the change set is empty and
\* the page's artifact is not written.
C12_ChangedIffNoSimilarOriginal ==
    d_pc = "done" =>
        \A t \in Thresholds :
            /\ Range(d_changed[t]) \subseteq Indices(d_mod)
            /\ \A idx \in Indices(d_mod) :
                   idx \in Range(d_changed[t])
                   <=> ~ \E k \in 1..Len(d_orig) :
                           is_text_similar(d_mod[idx + 1], d_orig[k], t)
            /\ d_orig = <<>> => d_changed[t] = [k \in 1..Len(d_mod) |-> k - 1]
            /\ d_mod = <<>> => (d_changed[t] = <<>> /\ ~d_write[t])

\* C12 witness: a page pair with tokens on both sides where one of two
\* modified tokens is flagged at 0.90
C12_Witness ==
    /\ d_pc = "done"
    /\ d_orig # <<>>
    /\ Len(d_mod) = 2
    /\ Len(d_changed[90]) = 1
    /\ d_write[90]

\* C14: for thresholds t1 < t2 the change set computed with t2 is a subset
\* of the change set computed with t1 (a higher sensitivity flags fewer
\* tokens).
C14_HigherSensitivityFlagsFewer ==
    d_pc = "done" =>
        \A t1 \in Thresholds, t2 \in Thresholds :
            t1 < t2 => Range(d_changed[t2]) \subseteq Range(d_changed[t1])

\* C15: Scenario B at 0.75: both misspelt tokens have a ratio above 0.75
\* with their original and the change set is empty.
C15_ScenarioBNoChange ==
    (d_pc = "done" /\ d_orig = ScenarioB.orig /\ d_mod = ScenarioB.mod) =>
        /\ \A k \in 1..2 :
               RatioAbove(normalize(d_mod[k]), normalize(d_orig[k]), 75)
        /\ d_changed[75] = <<>>
        /\ ~d_write[75]

\* C15 witness: the diff of Scenario B has been computed
C15_Witness ==
    /\ d_pc = "done"
    /\ d_orig = ScenarioB.orig
    /\ d_mod = ScenarioB.mod
    /\ normalize(d_mod[1]) # normalize(d_orig[1])
    /\ normalize(d_mod[2]) # normalize(d_orig[2])

\* C16: Scenario C at 0.90: the normal forms of "X200" and "X100" differ
\* and their ratio is below 0.90, so the change set is exactly the index of
\* "X200" and "Model" is not in it; the comparison is strict: a token
\* pair whose ratio equals the threshold is not similar.
C16_ScenarioCOneChange ==
    /\ (d_pc = "done" /\ d_orig = ScenarioC.orig /\ d_mod = ScenarioC.mod) =>
           /\ normalize(d_mod[2]) # normalize(d_orig[2])
           /\ LET r == ratio(normalize(d_mod[2]), normalize(d_orig[2]))
              IN  100 * r.num < 90 * r.den
           /\ d_changed[90] = <<1>>
           /\ d_write[90]
    /\ d_pc = "done" =>
           \A t \in Thresholds, idx \in Indices(d_mod) :
               ( /\ d_orig # <<>>
                 /\ \A k \in 1..Len(d_orig) :
                        LET norm_a == normalize(d_mod[idx + 1])
                            norm_b == normalize(d_orig[k])
                            r == ratio(norm_a, norm_b)
                        IN  /\ norm_a # norm_b
                            /\ 100 * r.num <= t * r.den )
               => idx \in Range(d_changed[t])

\* C16 witness: the diff of Scenario C has been computed, and the ratio of
\* the normal forms of "X200" and "X100" equals the threshold 0.75
C16_Witness ==
    /\ d_pc = "done"
    /\ d_orig = ScenarioC.orig
    /\ d_mod = ScenarioC.mod
    /\ LET r == ratio(normalize(d_mod[2]), normalize(d_orig[2]))
       IN  100 * r.num = 75 * r.den
    /\ d_changed[75] = <<1>>

\* the bijections of 1..n
Bijections(n) ==
    {p \in [1..n -> 1..n] : \A x \in 1..n, y \in 1..n : p[x] = p[y] => x = y}

\* the list whose k-th token is token p[k] of words
Permute(words, p) == [k \in 1..Len(words) |-> words[p[k]]]

\* C17: the change set is the same for every permutation of the original
\* tokens and when an original token is duplicated; permuting the modified
\* tokens permutes the change set in the same way; a modified page that
\* is a reordering of the original page has an empty change set and no
\* artifact.
C17_OrderOfTokensIrrelevant ==
    d_pc = "done" =>
        \A t \in Thresholds :
            /\ \A p \in Bijections(Len(d_orig)) :
                   changed_indices(Permute(d_orig, p), d_mod, t) = d_changed[t]
            /\ \A k \in 1..Len(d_orig) :
                   changed_indices(Append(d_orig, d_orig[k]), d_mod, t)
                   = d_changed[t]
            /\ \A p \in Bijections(Len(d_mod)) :
                   \A k \in 1..Len(d_mod) :
                       (k - 1) \in Range(changed_indices(d_orig,
                                                         Permute(d_mod, p), t))
                       <=> (p[k] - 1) \in Range(d_changed[t])
            /\ (\E p \in Bijections(Len(d_orig)) :
                    d_mod = Permute(d_orig, p))
               => (d_changed[t] = <<>> /\ ~d_write[t])

\* C17 witness: the modified page holds the original page's two different
\* tokens in the other order, and at 0.90 the two tokens are not similar
C17_Witness ==
    /\ d_pc = "done"
    /\ Len(d_orig) = 2
    /\ d_mod = <<d_orig[2], d_orig[1]>>
    /\ ~is_text_similar(d_orig[1], d_orig[2], 90)
    /\ ~is_text_similar(d_orig[2], d_orig[1], 90)
    /\ d_changed[90] = <<>>

\* C13: for every token box inside the image, the highlight rectangle
\* (max(left-4,0), max(top-4,0)) - (left+width+4, top+height+4) lies within
\* [0, image_width] x [0, image_height].
C13_RectangleInsideImage ==
    h_pc = "done" =>
        \A k \in 1..Len(h_rects) :
            /\ 0 <= h_rects[k].x1 /\ h_rects[k].x1 <= h_image.width
            /\ 0 <= h_rects[k].y1 /\ h_rects[k].y1 <= h_image.height
            /\ 0 <= h_rects[k].x2 /\ h_rects[k].x2 <= h_image.width
            /\ 0 <= h_rects[k].y2 /\ h_rects[k].y2 <= h_image.height

\* C13, amended: for every token box inside the image, the top-left corner
\* (max(left-4,0), max(top-4,0)) lies within the image, and the
\* bottom-right corner (left+width+4, top+height+4) lies at most 4 pixels
\* beyond the image's right and bottom edges, and beyond them exactly when
\* the box ends less than 4 pixels from the edge.
C13_RectangleWithinPaddingOfImage ==
    h_pc = "done" =>
        \A k \in 1..Len(h_rects) :
            LET row == h_text_data[1]
                rect == h_rects[k]
            IN  /\ rect.x1 = Max(row.left - padding, 0)
                /\ rect.y1 = Max(row.top - padding, 0)
                /\ rect.x2 = row.left + row.width + padding
                /\ rect.y2 = row.top + row.height + padding
                /\ 0 <= rect.x1 /\ rect.x1 <= h_image.width
                /\ 0 <= rect.y1 /\ rect.y1 <= h_image.height
                /\ rect.x1 < rect.x2 /\ rect.x2 <= h_image.width + padding
                /\ rect.y1 < rect.y2 /\ rect.y2 <= h_image.height + padding
                /\ rect.x2 > h_image.width
                   <=> row.left + row.width > h_image.width - padding
                /\ rect.y2 > h_image.height
                   <=> row.top + row.height > h_image.height - padding

\* C13 witness: a token box inside the image whose rectangle has been
\* drawn with the top-left corner clamped to 0 and the bottom-right
\* corner beyond the image
C13_Witness ==
    /\ h_pc = "done"
    /\ Len(h_rects) = 1
    /\ h_text_data[1].width > 0
    /\ h_text_data[1].height > 0
    /\ h_text_data[1].left < padding
    /\ h_rects[1].x1 = 0
    /\ h_rects[1].x2 > h_image.width
    /\ h_rects[1].y2 > h_image.height

\* the warning entries the current run appended to the log
CancelWarnings ==
    {k \in 1..Len(results_log) :
        /\ results_log[k].run = run
        /\ results_log[k].message = "Comparison cancelled by user"
        /\ results_log[k].tag = "warning"}

\* C18: whenever a run ends with progress 0 and "Comparison cancelled",
\* the warning "Comparison cancelled by user" was appended to the log
\* during that run, whenever the flag was set.
C18_CancelledRunLoggedWarning ==
    EndedCancelled => CancelWarnings # {}

\* C19: remaining = max(0, elapsed / (progress / 100) - elapsed) is never
\* negative and is shown as minutes and seconds whenever it is at least 60
\* (exactly 60 included), and as seconds otherwise.
C19_MinutesFromSixtySeconds ==
    e_pc = "done" =>
        LET remaining == remaining_of(e_elapsed, progress_of(e_i, e_total))
        IN  /\ remaining.num >= 0
            /\ e_text.secs >= 0
            /\ IF remaining.num >= 60 * remaining.den
               THEN /\ e_text.form = "m_s"
                    /\ e_text.mins = remaining.num \div (60 * remaining.den)
                    /\ e_text.secs = (remaining.num \div remaining.den) % 60
               ELSE /\ e_text.form = "s"
                    /\ e_text.secs = remaining.num \div remaining.den

\* the progress values compare_documents has emitted in the current run
ProgressValues == [k \in 1..Len(events) |-> events[k][1]]

\* the values of the pages 1..n, in order
PageValues(n, total) == [k \in 1..n |-> PageProgress(k - 1, total)]

\* C20: the progress values emitted in a run lie in 0..100; until the run
\* is cancelled or fails they are, in non-decreasing order, 5, then
\* 10 + i*80/total_pages for i = 0..total_pages-1 (each at least 10 and
\* below 90), then 95 only if a report is generated, then 100; 0 is
\* emitted only as the last value of a cancelled or failed run.
C20_ProgressSequence ==
    LET vals == ProgressValues
        n == Len(events)
        total == total_pages(original_pages, modified_pages)
    IN  /\ \A k \in 1..n : vals[k] \in 0..100
        /\ \A k \in 1..n :
               vals[k] = 0 =>
                   /\ k = n
                   /\ pc = "idle"
                   /\ outcome \in {"cancelled", "error"}
        /\ \A k \in 1..(n - 1) : vals[k + 1] # 0 => vals[k] <= vals[k + 1]
        /\ n >= 1 => vals[1] = 5
        /\ \A k \in 2..n :
               vals[k] \notin {0, 95, 100} =>
                   /\ k - 2 < total
                   /\ vals[k] = PageProgress(k - 2, total)
                   /\ 10 <= vals[k] /\ vals[k] < 90
        /\ \A k \in 1..n :
               vals[k] \in {95, 100} =>
                   SubSeq(vals, 1, total + 1) = <<5>> \o PageValues(total, total)
        /\ \A k \in 1..n :
               vals[k] = 100 =>
                   /\ k = n
                   /\ outcome = "success"
                   /\ (\E j \in 1..n : vals[j] = 95) <=> report_written
        /\ outcome = "success" =>
               vals = <<5>> \o PageValues(total, total)
                      \o (IF report_written THEN <<95>> ELSE <<>>)
                      \o <<100>>

\* C20 witness: a successful run over two pages that generated a report
C20_Witness ==
    /\ RunEnded
    /\ outcome = "success"
    /\ report_written
    /\ ProgressValues = <<5, 10, 50, 95, 100>>

\* C21: in the desktop front-end a cancel request made while a run has
\* unprocessed pages is never lost: cancel_requested stays true until
\* that run's next boundary check, so the run starts no further page; in
\* particular the finally block of an earlier run never clears a request
\* made for a run started after the Compare button was re-enabled.
C21_CancelRequestNeverLost ==
    \A w \in DOMAIN t_pc :
        /\ t_pending[w] => cancel_requested
        /\ ~t_lost[w]

\* C22: in the desktop front-end every run, whatever its outcome, leaves
\* the controls idle when it ends (Compare enabled, Cancel disabled,
\* cancel_requested false), and while a run's page loop is executing the
\* Compare button is disabled and no second comparison thread is running.
C22_RunLeavesUiIdle ==
    \A w \in DOMAIN t_pc :
        /\ t_pc[w] = "ended" => t_end_idle[w]
        /\ t_pc[w] \in {"loop", "page"} =>
               /\ ~compare_button
               /\ \A v \in DOMAIN t_pc : v # w => ~Alive(v)

=============================================================================
